---- MODULE Spec2Model ----
(***************************************************************************)
(* Session controller of the Streamlit chat front-end (src/frontend.py).   *)
(*                                                                         *)
(* The script is re-run from the top for every user event.  One action of  *)
(* this module is one event: the session setup of the run that handles it  *)
(* (lines 60-71), the handler, and the rerun the handler asks for          *)
(* (st.rerun()), which executes the session setup once more.  The submit   *)
(* handler pulls the reply fragments from the engine one at a time; its    *)
(* loop is modelled fragment by fragment with the script position in pc.   *)
(* Events are handled one at a time, as the design states: an event is     *)
(* taken only between runs (pc = "idle").                                  *)
(*                                                                         *)
(* Text is a sequence of characters.  The conversation engine (module      *)
(* backend, not part of src/) is modelled from its contract: a persisted   *)
(* message list per thread id and two calls, fetch and stream, either of   *)
(* which may fail.                                                         *)
(***************************************************************************)
EXTENDS Integers, Sequences, FiniteSets, TLC

\* ------------------------------------------------------------------ bounds
MaxThreads == 3      \* thread ids generated in a session
MaxSubmits == 2      \* submit_message events in a session
MaxChunks  == 2      \* fragments one reply stream yields

\* --------------------------------------------------------------- constants
TitleLimit == 30

Rep(c, n) == [i \in 1..n |-> c]

NewChatTitle == <<"N", "e", "w", " ", "C", "h", "a", "t">>
Ellipsis     == <<".", ".", ".">>
Cursor       == "|cursor|"
NoInput      == <<>>

ShortText == <<"h", "i">>
Text30    == Rep("a", 30)
Text31    == Rep("a", 30) \o <<"b">>
Texts     == {ShortText, Text30, Text31}

\* The text of the title scenario, submitted under SpecScenario.
HelloText ==
    <<"H", "e", "l", "l", "o", " ", "t", "h", "e", "r", "e", ",", " ", "t", 
      "h", "i", "s", " ", "m", "e", "s", "s", "a", "g", "e", " ", "i", "s", 
      " ", "o", "v", "e", "r", " ", "t", "h", "i", "r", "t", "y", " ", "c", 
      "h", "a", "r", "a", "c", "t", "e", "r", "s", " ", "l", "o", "n", "g">>

\* A fragment the engine yields: has = FALSE is a chunk object without a
\* content attribute.
FragHi    == [has |-> TRUE,  content |-> <<"H", "i">>]
FragThere == [has |-> TRUE,  content |-> <<" ", "t", "h", "e", "r", "e">>]
FragEmpty == [has |-> TRUE,  content |-> <<>>]
FragBare  == [has |-> FALSE, content |-> <<>>]
Fragments == {FragHi, FragThere, FragEmpty, FragBare}

StreamFailure == "stream failed"
FetchFailure  == "fetch failed"

VARIABLES
    thread_id,            \* st.session_state['thread_id']
    chat_threads,         \* st.session_state['chat_threads']
    message_history,      \* st.session_state['message_history']
    checkpoints,          \* engine: persisted messages per thread id
    next_uuid,            \* the ids generate_thread_id has not handed out yet
    now,                  \* datetime.now()
    pc,                   \* "idle" between events, "streaming" inside the loop
    user_input,           \* the submitted text of the running submit handler
    full_response,        \* the accumulating buffer
    response_placeholder, \* what the placeholder last rendered
    yielded,              \* engine: the fragments this stream has yielded
    errors,               \* st.error calls made while handling the last event
    event,                \* the last event handled
    submits,              \* number of submit events so far
    engine_failed         \* history: an engine call failed since the list was last replaced

vars == <<thread_id, chat_threads, message_history, checkpoints, next_uuid, now,
          pc, user_input, full_response, response_placeholder, yielded, errors,
          event, submits, engine_failed>>

ThreadIdSpace == 1..(MaxThreads + 1)

\* ---------------------------------------------------------------- helpers
ThreadIds(threads) == {threads[i].id : i \in DOMAIN threads}

RECURSIVE Concat(_)
Concat(frags) ==
    IF frags = <<>> THEN <<>>
    ELSE (IF Head(frags).has THEN Head(frags).content ELSE <<>>) \o Concat(Tail(frags))

\* ------------------------------------------------------ utility functions
\* Variant: the id source hands out the id that is already active.
generate_thread_id_reused == thread_id

generate_thread_id == next_uuid

\* Variant: add_thread without the membership test of line 23.
add_thread_unconditional(threads, id, t) ==
    Append(threads, [id |-> id, created_at |-> t, title |-> NewChatTitle])

\* Variant: the membership test of add_thread inverted.
add_thread_inverted(threads, id, t) ==
    IF id \in {threads[i].id : i \in DOMAIN threads}
    THEN Append(threads, [id |-> id, created_at |-> t, title |-> NewChatTitle])
    ELSE threads

add_thread(threads, id, t) ==
    IF id \notin ThreadIds(threads)
    THEN Append(threads, [id |-> id, created_at |-> t, title |-> NewChatTitle])
    ELSE threads

\* Variant: the length test of the title off by one (>= for >).
truncate_title_at_limit(first_message) ==
    IF Len(first_message) >= TitleLimit
    THEN SubSeq(first_message, 1, TitleLimit) \o Ellipsis
    ELSE first_message

\* Variant: the slice of the title one character short ([:29]).
truncate_title_short(first_message) ==
    IF Len(first_message) > TitleLimit
    THEN SubSeq(first_message, 1, TitleLimit - 1) \o Ellipsis
    ELSE first_message

truncate_title(first_message) ==
    IF Len(first_message) > TitleLimit
    THEN SubSeq(first_message, 1, TitleLimit) \o Ellipsis
    ELSE first_message

\* Variant: update_thread_title without the id test of line 43.
update_thread_title_everywhere(threads, id, first_message) ==
    [i \in DOMAIN threads |->
        [threads[i] EXCEPT !.title = truncate_title(first_message)]]

update_thread_title(threads, id, first_message) ==
    LET hits == {i \in DOMAIN threads : threads[i].id = id}
    IN  IF hits = {} THEN threads
        ELSE LET k == CHOOSE i \in hits : \A j \in hits : i <= j
             IN  [threads EXCEPT ![k].title = truncate_title(first_message)]

\* Variant: the filter of delete_thread keeps the entry instead of the others.
remove_thread_inverted(threads, id) == SelectSeq(threads, LAMBDA t : t.id = id)

remove_thread(threads, id) == SelectSeq(threads, LAMBDA t : t.id # id)

\* sorted(..., key=created_at) as Python computes it: stable, the entries taken
\* in list order and each put behind the entries it does not precede.
RECURSIVE insert_by_created_at(_, _, _)
insert_by_created_at(sorted, t, reverse) ==
    IF sorted = <<>> THEN <<t>>
    ELSE IF (IF reverse THEN Head(sorted).created_at >= t.created_at
                        ELSE Head(sorted).created_at <= t.created_at)
         THEN <<Head(sorted)>> \o insert_by_created_at(Tail(sorted), t, reverse)
         ELSE <<t>> \o sorted

RECURSIVE sorted_by_created_at(_, _)
sorted_by_created_at(threads, reverse) ==
    IF threads = <<>> THEN <<>>
    ELSE insert_by_created_at(
             sorted_by_created_at(SubSeq(threads, 1, Len(threads) - 1), reverse),
             threads[Len(threads)], reverse)

\* Variant: the sort of the sidebar without reverse=True.
sidebar_threads_oldest_first(threads) == sorted_by_created_at(threads, FALSE)

\* The threads in the order the sidebar loop renders them (line 86).
sidebar_threads(threads) == sorted_by_created_at(threads, TRUE)

\* Variant: the two roles exchanged.
role_of_swapped(msg) == IF msg.kind = "human" THEN "assistant" ELSE "user"

role_of(msg) == IF msg.kind = "human" THEN "user" ELSE "assistant"

role_map(messages) ==
    [i \in DOMAIN messages |-> [role |-> role_of(messages[i]), content |-> messages[i].content]]

error_msg(e) == <<"Sorry, I encountered an error: ", e>>

\* Lines 60-71 of a run in a session that already holds its three keys.
session_setup(threads, id, t) == add_thread(threads, id, t)

\* --------------------------------------------------------------- engine
load_conversation(id, ok) == IF ok THEN checkpoints[id] ELSE <<>>

engine_reply(frags) == [kind |-> "ai", content |-> Concat(frags)]

engine_human(text) == [kind |-> "human", content |-> text]

\* ---------------------------------------------------------------- state
Init ==
    /\ thread_id = 1
    /\ chat_threads = session_setup(<<>>, 1, 1)
    /\ message_history = <<>>
    /\ checkpoints = [i \in ThreadIdSpace |-> <<>>]
    /\ next_uuid = 2
    /\ now = 2
    /\ pc = "idle"
    /\ user_input = NoInput
    /\ full_response = <<>>
    /\ response_placeholder = <<>>
    /\ yielded = <<>>
    /\ errors = <<>>
    /\ event = [op |-> "load", id |-> 1, ok |-> TRUE, was |-> 1]
    /\ submits = 0
    /\ engine_failed = FALSE

\* A new script run starts: the locals and the page of the previous run are gone.
NewRun ==
    /\ user_input' = NoInput
    /\ full_response' = <<>>
    /\ response_placeholder' = <<>>
    /\ yielded' = <<>>

\* Variant: reset_chat without line 18, the displayed list is kept.
reset_chat_keeps_list(threads) ==
    LET id == generate_thread_id
    IN  /\ thread_id' = id
        /\ chat_threads' = session_setup(add_thread(threads, id, now), id, now)
        /\ message_history' = message_history
        /\ next_uuid' = next_uuid + 1
        /\ now' = now + 1
        /\ engine_failed' = FALSE

\* reset_chat on the thread list `threads`, followed by the rerun it asks for.
reset_chat(threads) ==
    LET id == generate_thread_id
    IN  /\ thread_id' = id
        /\ chat_threads' = session_setup(add_thread(threads, id, now), id, now)
        /\ message_history' = <<>>
        /\ next_uuid' = next_uuid + 1
        /\ now' = now + 1
        /\ engine_failed' = FALSE

\* The "New Chat" button (lines 78-79).
create_thread ==
    /\ pc = "idle"
    /\ next_uuid <= MaxThreads
    /\ reset_chat(session_setup(chat_threads, thread_id, now))
    /\ NewRun
    /\ errors' = <<>>
    /\ event' = [op |-> "create", id |-> generate_thread_id, ok |-> TRUE, was |-> thread_id]
    /\ UNCHANGED <<checkpoints, pc, submits>>

\* Variant: the select handler stops at the failed fetch and keeps the list.
select_thread_keeps_list(id, ok) ==
    /\ pc = "idle"
    /\ id \in ThreadIds(session_setup(chat_threads, thread_id, now))
    /\ IF id = thread_id
       THEN /\ ok
            /\ chat_threads' = session_setup(chat_threads, thread_id, now)
            /\ errors' = <<>>
            /\ UNCHANGED <<thread_id, message_history, engine_failed>>
       ELSE /\ thread_id' = id
            /\ message_history' = IF ok THEN role_map(load_conversation(id, ok))
                                        ELSE message_history
            /\ errors' = IF ok THEN <<>> ELSE <<FetchFailure>>
            /\ chat_threads' = session_setup(session_setup(chat_threads, thread_id, now), id, now)
            /\ engine_failed' = ~ok
    /\ NewRun
    /\ event' = [op |-> "select", id |-> id, ok |-> ok, was |-> thread_id]
    /\ UNCHANGED <<checkpoints, next_uuid, now, pc, submits>>

\* Variant: the select handler without the test of line 96, it always loads.
select_thread_always_loads(id, ok) ==
    /\ pc = "idle"
    /\ id \in ThreadIds(session_setup(chat_threads, thread_id, now))
    /\ thread_id' = id
    /\ message_history' = role_map(load_conversation(id, ok))
    /\ errors' = IF ok THEN <<>> ELSE <<FetchFailure>>
    /\ chat_threads' = session_setup(session_setup(chat_threads, thread_id, now), id, now)
    /\ engine_failed' = ~ok
    /\ NewRun
    /\ event' = [op |-> "select", id |-> id, ok |-> ok, was |-> thread_id]
    /\ UNCHANGED <<checkpoints, next_uuid, now, pc, submits>>

\* A thread button (lines 94-113).
select_thread(id, ok) ==
    /\ pc = "idle"
    /\ id \in ThreadIds(session_setup(chat_threads, thread_id, now))
    /\ IF id = thread_id
       THEN /\ ok
            /\ chat_threads' = session_setup(chat_threads, thread_id, now)
            /\ errors' = <<>>
            /\ UNCHANGED <<thread_id, message_history, engine_failed>>
       ELSE /\ thread_id' = id
            /\ message_history' = role_map(load_conversation(id, ok))
            /\ errors' = IF ok THEN <<>> ELSE <<FetchFailure>>
            /\ chat_threads' = session_setup(session_setup(chat_threads, thread_id, now), id, now)
            /\ engine_failed' = ~ok
    /\ NewRun
    /\ event' = [op |-> "select", id |-> id, ok |-> ok, was |-> thread_id]
    /\ UNCHANGED <<checkpoints, next_uuid, now, pc, submits>>

\* Variant: delete_thread also clears the engine's list of the thread.
delete_thread_purges(id) ==
    /\ pc = "idle"
    /\ id \in ThreadIds(session_setup(chat_threads, thread_id, now))
    /\ LET kept == remove_thread(session_setup(chat_threads, thread_id, now), id)
       IN  IF thread_id = id
           THEN /\ next_uuid <= MaxThreads
                /\ reset_chat(kept)
           ELSE /\ chat_threads' = session_setup(kept, thread_id, now)
                /\ UNCHANGED <<thread_id, message_history, next_uuid, now, engine_failed>>
    /\ NewRun
    /\ errors' = <<>>
    /\ event' = [op |-> "delete", id |-> id, ok |-> TRUE, was |-> thread_id]
    /\ checkpoints' = [checkpoints EXCEPT ![id] = <<>>]
    /\ UNCHANGED <<pc, submits>>

\* Variant: delete_thread without lines 51-52, the deleted id stays active.
delete_thread_without_reset(id) ==
    /\ pc = "idle"
    /\ id \in ThreadIds(session_setup(chat_threads, thread_id, now))
    /\ LET kept == remove_thread(session_setup(chat_threads, thread_id, now), id)
       IN  /\ chat_threads' = session_setup(kept, thread_id, now)
           /\ UNCHANGED <<thread_id, message_history, next_uuid, now, engine_failed>>
    /\ NewRun
    /\ errors' = <<>>
    /\ event' = [op |-> "delete", id |-> id, ok |-> TRUE, was |-> thread_id]
    /\ UNCHANGED <<checkpoints, pc, submits>>

\* A delete button (lines 115-118) and delete_thread (lines 48-52).
delete_thread(id) ==
    /\ pc = "idle"
    /\ id \in ThreadIds(session_setup(chat_threads, thread_id, now))
    /\ LET kept == remove_thread(session_setup(chat_threads, thread_id, now), id)
       IN  IF thread_id = id
           THEN /\ next_uuid <= MaxThreads
                /\ reset_chat(kept)
           ELSE /\ chat_threads' = session_setup(kept, thread_id, now)
                /\ UNCHANGED <<thread_id, message_history, next_uuid, now, engine_failed>>
    /\ NewRun
    /\ errors' = <<>>
    /\ event' = [op |-> "delete", id |-> id, ok |-> TRUE, was |-> thread_id]
    /\ UNCHANGED <<checkpoints, pc, submits>>

\* The chat input, up to the start of the stream (lines 151-169).
submit_message(text) ==
    /\ pc = "idle"
    /\ submits < MaxSubmits
    /\ LET threads == session_setup(chat_threads, thread_id, now)
       IN  chat_threads' = IF message_history = <<>>
                           THEN update_thread_title(threads, thread_id, text)
                           ELSE threads
    /\ message_history' = Append(message_history, [role |-> "user", content |-> text])
    /\ user_input' = text
    /\ full_response' = <<>>
    /\ response_placeholder' = <<>>
    /\ yielded' = <<>>
    /\ errors' = <<>>
    /\ pc' = "streaming"
    /\ submits' = submits + 1
    /\ event' = [op |-> "submit", id |-> thread_id, ok |-> TRUE, was |-> thread_id]
    /\ UNCHANGED <<thread_id, checkpoints, next_uuid, now, engine_failed>>

\* Variant: the fragment is put in front of the buffer.
accumulate_in_front(buffer, chunk) ==
    IF chunk.has /\ chunk.content # <<>> THEN chunk.content \o buffer ELSE buffer

\* One pass of the stream loop (lines 172-179).
accumulate(buffer, chunk) ==
    IF chunk.has /\ chunk.content # <<>> THEN buffer \o chunk.content ELSE buffer

stream_chunk(chunk) ==
    /\ pc = "streaming"
    /\ Len(yielded) < MaxChunks
    /\ yielded' = Append(yielded, chunk)
    /\ full_response' = accumulate(full_response, chunk)
    /\ response_placeholder' =
           IF chunk.has /\ chunk.content # <<>>
           THEN Append(accumulate(full_response, chunk), Cursor)
           ELSE response_placeholder
    /\ event' = [op |-> "chunk", id |-> thread_id, ok |-> TRUE, was |-> thread_id]
    /\ UNCHANGED <<thread_id, chat_threads, message_history, checkpoints, next_uuid,
                   now, pc, user_input, errors, submits, engine_failed>>

\* Variant: line 185 assigns the list instead of appending to it.
stream_end_overwrites ==
    /\ pc = "streaming"
    /\ response_placeholder' = full_response
    /\ message_history' = <<[role |-> "assistant", content |-> full_response]>>
    /\ checkpoints' = [checkpoints EXCEPT ![thread_id] =
                           @ \o <<engine_human(user_input), engine_reply(yielded)>>]
    /\ pc' = "idle"
    /\ event' = [op |-> "stream_end", id |-> thread_id, ok |-> TRUE, was |-> thread_id]
    /\ UNCHANGED <<thread_id, chat_threads, next_uuid, now, user_input, full_response,
                   yielded, errors, submits, engine_failed>>

\* The stream ends (lines 181-185); the engine has persisted the exchange.
stream_end ==
    /\ pc = "streaming"
    /\ response_placeholder' = full_response
    /\ message_history' = Append(message_history, [role |-> "assistant", content |-> full_response])
    /\ checkpoints' = [checkpoints EXCEPT ![thread_id] =
                           @ \o <<engine_human(user_input), engine_reply(yielded)>>]
    /\ pc' = "idle"
    /\ event' = [op |-> "stream_end", id |-> thread_id, ok |-> TRUE, was |-> thread_id]
    /\ UNCHANGED <<thread_id, chat_threads, next_uuid, now, user_input, full_response,
                   yielded, errors, submits, engine_failed>>

\* Variant: the except branch stores the partial buffer.
stream_raise_keeps_partial(kept_input) ==
    /\ pc = "streaming"
    /\ message_history' = Append(message_history,
                                 [role |-> "assistant", content |-> full_response])
    /\ errors' = <<error_msg(StreamFailure)>>
    /\ checkpoints' = IF kept_input
                      THEN [checkpoints EXCEPT ![thread_id] = Append(@, engine_human(user_input))]
                      ELSE checkpoints
    /\ pc' = "idle"
    /\ engine_failed' = TRUE
    /\ event' = [op |-> "stream_raise", id |-> thread_id, ok |-> FALSE, was |-> thread_id]
    /\ UNCHANGED <<thread_id, chat_threads, next_uuid, now, user_input, full_response,
                   response_placeholder, yielded, submits>>

\* The stream raises (lines 187-190); the engine may have persisted the input.
stream_raise(kept_input) ==
    /\ pc = "streaming"
    /\ message_history' = Append(message_history,
                                 [role |-> "assistant", content |-> error_msg(StreamFailure)])
    /\ errors' = <<error_msg(StreamFailure)>>
    /\ checkpoints' = IF kept_input
                      THEN [checkpoints EXCEPT ![thread_id] = Append(@, engine_human(user_input))]
                      ELSE checkpoints
    /\ pc' = "idle"
    /\ engine_failed' = TRUE
    /\ event' = [op |-> "stream_raise", id |-> thread_id, ok |-> FALSE, was |-> thread_id]
    /\ UNCHANGED <<thread_id, chat_threads, next_uuid, now, user_input, full_response,
                   response_placeholder, yielded, submits>>

Next ==
    \/ create_thread
    \/ \E id \in ThreadIdSpace, ok \in BOOLEAN : select_thread(id, ok)
    \/ \E id \in ThreadIdSpace : delete_thread(id)
    \/ \E text \in Texts : submit_message(text)
    \/ \E chunk \in Fragments : stream_chunk(chunk)
    \/ stream_end
    \/ \E kept_input \in BOOLEAN : stream_raise(kept_input)

Spec == Init /\ [][Next]_vars

\* The session in which every submitted text is the text of the title scenario.
NextScenario ==
    \/ create_thread
    \/ \E id \in ThreadIdSpace, ok \in BOOLEAN : select_thread(id, ok)
    \/ \E id \in ThreadIdSpace : delete_thread(id)
    \/ submit_message(HelloText)
    \/ \E chunk \in Fragments : stream_chunk(chunk)
    \/ stream_end
    \/ \E kept_input \in BOOLEAN : stream_raise(kept_input)

SpecScenario == Init /\ [][NextScenario]_vars

\* ------------------------------------------------------------- properties
Range(seq) == {seq[i] : i \in DOMAIN seq}

TitleOf(threads, id) == threads[CHOOSE i \in DOMAIN threads : threads[i].id = id].title

Last(seq) == seq[Len(seq)]

\* C1: in every reachable state an active thread id is set and the thread set
\* holds an entry whose id equals it.
C1_ActiveThreadPresent ==
    /\ thread_id \in ThreadIdSpace
    /\ \E i \in DOMAIN chat_threads : chat_threads[i].id = thread_id

\* C1 witness: the active thread has just been deleted and a fresh one is active.
C1_Witness ==
    /\ event.op = "delete"
    /\ event.id = event.was
    /\ thread_id # event.id
    /\ \E i \in DOMAIN chat_threads : chat_threads[i].id = thread_id

C3_TitleWrittenOnce ==
    [][\A i \in DOMAIN chat_threads :
          (/\ chat_threads[i].title # NewChatTitle
           /\ chat_threads[i].id \in ThreadIds(chat_threads'))
          => TitleOf(chat_threads', chat_threads[i].id) = chat_threads[i].title]_vars

\* C4: deleting the active thread ends with an active id that differs from the
\* deleted id and from every id of the thread set before, present in the thread
\* set, with the deleted id absent and the message list empty.
C4_DeleteActive ==
    [][(event'.op = "delete" /\ event'.id = thread_id)
       => /\ thread_id' # thread_id
          /\ thread_id' \notin ThreadIds(chat_threads)
          /\ thread_id' \in ThreadIds(chat_threads')
          /\ thread_id \notin ThreadIds(chat_threads')
          /\ message_history' = <<>>]_vars

\* C4 witness: the active thread, which held a persisted exchange, was deleted
\* while another thread was in the thread set.
C4_Witness ==
    /\ event.op = "delete"
    /\ event.id = event.was
    /\ checkpoints[event.id] # <<>>
    /\ Len(chat_threads) >= 2
    /\ thread_id # event.id
    /\ message_history = <<>>

\* C5: deleting a thread that is not active removes exactly its entry and
\* leaves the active id, the message list and every other entry unchanged.
C5_DeleteInactive ==
    [][(event'.op = "delete" /\ event'.id # thread_id)
       => /\ chat_threads' = SelectSeq(chat_threads, LAMBDA t : t.id # event'.id)
          /\ Len(chat_threads') = Len(chat_threads) - 1
          /\ thread_id' = thread_id
          /\ message_history' = message_history]_vars

\* C5 witness: a non-active thread was deleted while the active one shows messages.
C5_Witness ==
    /\ event.op = "delete"
    /\ event.id # event.was
    /\ thread_id = event.was
    /\ message_history # <<>>
    /\ event.id \notin ThreadIds(chat_threads)

\* C6: after a successful select of another thread the active id is the
\* selected one and the message list is the engine's list for it, entry by
\* entry: same length, same order, same content, role "user" for a human
\* message and "assistant" otherwise.
C6_SelectLoadsHistory ==
    (event.op = "select" /\ event.ok /\ event.id # event.was)
    => /\ thread_id = event.id
       /\ Len(message_history) = Len(checkpoints[event.id])
       /\ \A i \in DOMAIN message_history :
             /\ message_history[i].content = checkpoints[event.id][i].content
             /\ message_history[i].role =
                    IF checkpoints[event.id][i].kind = "human" THEN "user" ELSE "assistant"

\* C6 witness: a successful select has loaded a human and an engine message.
C6_Witness ==
    /\ event.op = "select"
    /\ event.ok
    /\ event.id # event.was
    /\ Len(message_history) = 2
    /\ message_history[1].role = "user"
    /\ message_history[2].role = "assistant"

\* C7: a fetch that fails during a select is not propagated: one error is
\* shown, the message list becomes empty, the selected id is active and the
\* thread set is unchanged.
C7_SelectFetchFails ==
    [][(event'.op = "select" /\ ~event'.ok)
       => /\ errors' = <<FetchFailure>>
          /\ message_history' = <<>>
          /\ thread_id' = event'.id
          /\ chat_threads' = chat_threads
          /\ pc' = "idle"]_vars

\* C7 witness: a select failed on a thread for which the engine holds messages.
C7_Witness ==
    /\ event.op = "select"
    /\ ~event.ok
    /\ checkpoints[event.id] # <<>>
    /\ checkpoints[event.was] # <<>>
    /\ message_history = <<>>
    /\ Len(errors) = 1

\* C8: when the stream completes, the assistant entry appended holds the
\* concatenation of the yielded fragments in yield order, fragments with empty
\* or missing content adding nothing, and neither it nor the final rendering
\* holds the cursor marker.
C8_StreamCompletes ==
    (event.op = "stream_end")
    => /\ Last(message_history) = [role |-> "assistant", content |-> Concat(yielded)]
       /\ response_placeholder = Concat(yielded)
       /\ Cursor \notin Range(Last(message_history).content)
       /\ Cursor \notin Range(response_placeholder)

\* C8 witness: the fragments "Hi" and " there" were yielded and stored as "Hi there".
C8_Witness ==
    /\ event.op = "stream_end"
    /\ yielded = <<FragHi, FragThere>>
    /\ Last(message_history) =
           [role |-> "assistant", content |-> <<"H", "i", " ", "t", "h", "e", "r", "e">>]

\* C9: a stream that raises leaves the user message followed by exactly one
\* assistant entry holding the error string; the partial buffer is stored
\* nowhere, and the session is back between events with the same active id.
C9_StreamRaises ==
    [][/\ (event'.op = "submit")
          => message_history' = Append(message_history, [role |-> "user", content |-> user_input'])
       /\ (event'.op = "chunk") => message_history' = message_history
       /\ (event'.op = "stream_raise")
          => /\ Last(message_history) = [role |-> "user", content |-> user_input]
             /\ message_history' = Append(message_history,
                    [role |-> "assistant", content |-> error_msg(StreamFailure)])
             /\ thread_id' = thread_id
             /\ thread_id' \in ThreadIds(chat_threads')
             /\ pc' = "idle"]_vars

\* C9 witness: the stream raised after a fragment had been accumulated.
C9_Witness ==
    /\ event.op = "stream_raise"
    /\ full_response # <<>>
    /\ Last(message_history).content = error_msg(StreamFailure)
    /\ \A i \in DOMAIN message_history : message_history[i].content # full_response
    /\ pc = "idle"

\* C10: the first message of the active thread sets its title to the text when
\* the text has at most 30 characters and to its first 30 characters followed
\* by "..." when it has more.
C10_FirstMessageTitle ==
    [][(event'.op = "submit" /\ message_history = <<>>)
       => TitleOf(chat_threads', thread_id) =
              IF Len(user_input') <= 30
              THEN user_input'
              ELSE SubSeq(user_input', 1, 30) \o <<".", ".", ".">>]_vars

\* C10 witness: one thread is titled by a 30-character first message, kept
\* whole, and another by a 31-character one, cut to 30 characters and "...".
C10_Witness ==
    /\ event.op = "submit"
    /\ \E i, j \in DOMAIN chat_threads :
          /\ chat_threads[i].title = Text30
          /\ chat_threads[j].title = Text30 \o <<".", ".", ".">>

\* The submit handler has just taken `text` on a thread whose list was empty.
FirstSubmitOf(text) ==
    /\ event.op = "submit"
    /\ pc = "streaming"
    /\ user_input = text
    /\ Len(message_history) = 1

\* C11 as stated: submitting the scenario text on an empty thread sets the
\* title to "Hello there, this message is " followed by "...".
C11_ScenarioTitleAsStated ==
    FirstSubmitOf(HelloText)
    => TitleOf(chat_threads, thread_id) =
           <<"H", "e", "l", "l", "o", " ", "t", "h", "e", "r", "e", ",", " ", "t", 
            "h", "i", "s", " ", "m", "e", "s", "s", "a", "g", "e", " ", "i", "s", 
            " ">>
           \o <<".", ".", ".">>

\* C11 as amended: submitting the scenario text on an empty thread sets the
\* title to its first 30 characters, "Hello there, this message is o",
\* followed by "...".
C11_ScenarioTitle ==
    FirstSubmitOf(HelloText)
    => TitleOf(chat_threads, thread_id) =
           <<"H", "e", "l", "l", "o", " ", "t", "h", "e", "r", "e", ",", " ", "t", 
            "h", "i", "s", " ", "m", "e", "s", "s", "a", "g", "e", " ", "i", "s", 
            " ", "o">>
           \o <<".", ".", ".">>

\* C11 witness: the scenario text was submitted on an empty thread and the
\* title has 33 characters.
C11_Witness ==
    /\ FirstSubmitOf(HelloText)
    /\ Len(TitleOf(chat_threads, thread_id)) = 33
    /\ TitleOf(chat_threads, thread_id)[30] = "o"

\* C12: every create_thread appends exactly one thread, titled "New Chat",
\* whose id is in no entry of the thread set before; it makes that id active,
\* empties the message list and leaves the existing entries in place.
C12_CreateThread ==
    [][(event'.op = "create")
       => /\ Len(chat_threads') = Len(chat_threads) + 1
          /\ SubSeq(chat_threads', 1, Len(chat_threads)) = chat_threads
          /\ chat_threads'[Len(chat_threads')].id = thread_id'
          /\ chat_threads'[Len(chat_threads')].title = NewChatTitle
          /\ thread_id' \notin ThreadIds(chat_threads)
          /\ thread_id' # thread_id
          /\ message_history' = <<>>]_vars

\* C12 witness: after two create_thread events on the initial session the
\* thread set holds three distinct ids and the last created one is active.
C12_Witness ==
    /\ event.op = "create"
    /\ event.was = 2
    /\ thread_id = 3
    /\ Len(chat_threads) = 3
    /\ ThreadIds(chat_threads) = {1, 2, 3}
    /\ message_history = <<>>

\* C13: every step of a submit keeps the list it found as a prefix; the
\* submit appends the user entry, a fragment changes nothing, and the end of
\* the stream appends one assistant entry, the full reply or the error string,
\* right after that user entry.
C13_AppendOrdered ==
    [][/\ (event'.op \in {"submit", "chunk", "stream_end", "stream_raise"})
          => /\ Len(message_history) <= Len(message_history')
             /\ SubSeq(message_history', 1, Len(message_history)) = message_history
       /\ (event'.op = "submit")
          => /\ Len(message_history') = Len(message_history) + 1
             /\ Last(message_history') = [role |-> "user", content |-> user_input']
       /\ (event'.op = "chunk") => Len(message_history') = Len(message_history)
       /\ (event'.op = "stream_end")
          => /\ Last(message_history) = [role |-> "user", content |-> user_input]
             /\ Len(message_history') = Len(message_history) + 1
             /\ Last(message_history') = [role |-> "assistant", content |-> Concat(yielded)]
       /\ (event'.op = "stream_raise")
          => /\ Last(message_history) = [role |-> "user", content |-> user_input]
             /\ Len(message_history') = Len(message_history) + 1
             /\ Last(message_history') =
                    [role |-> "assistant", content |-> error_msg(StreamFailure)]]_vars

\* C13 witness: a second exchange was appended after a first one.
C13_Witness ==
    /\ event.op = "stream_end"
    /\ Len(message_history) = 4
    /\ message_history[1].role = "user"
    /\ message_history[2].role = "assistant"
    /\ message_history[3] = [role |-> "user", content |-> user_input]
    /\ message_history[4].role = "assistant"

\* C14: selecting the thread that is already active changes nothing: no
\* fetch is made (no fetch error can be shown), and the active id, the thread
\* set, the message list and the engine's lists stay as they are.
C14_SelectActiveIsNoOp ==
    [][(event'.op = "select" /\ event'.id = thread_id)
       => /\ thread_id' = thread_id
          /\ chat_threads' = chat_threads
          /\ message_history' = message_history
          /\ checkpoints' = checkpoints
          /\ errors' = <<>>
          /\ engine_failed' = engine_failed]_vars

\* C14 witness: the active thread was selected while its list ends with a
\* synthetic error entry, which the engine does not hold.
C14_Witness ==
    /\ event.op = "select"
    /\ event.id = event.was
    /\ thread_id = event.id
    /\ message_history # <<>>
    /\ Last(message_history).content = error_msg(StreamFailure)
    /\ message_history # role_map(checkpoints[thread_id])

\* C15: a delete changes no list the engine holds, so the list of the deleted
\* id is still there under its key.
C15_DeleteKeepsEngineHistory ==
    [][(event'.op = "delete") => checkpoints' = checkpoints]_vars

\* C15 witness: a thread for which the engine holds an exchange was deleted
\* and the engine still holds the exchange.
C15_Witness ==
    /\ event.op = "delete"
    /\ event.id \notin ThreadIds(chat_threads)
    /\ Len(checkpoints[event.id]) = 2
    /\ load_conversation(event.id, TRUE) = checkpoints[event.id]

\* C16: the sidebar lists exactly the threads of the thread set, each once,
\* newest first: a thread created later stands above one created earlier.
C16_SidebarNewestFirst ==
    LET shown == sidebar_threads(chat_threads)
    IN  /\ Len(shown) = Len(chat_threads)
        /\ \A i \in DOMAIN chat_threads :
              Cardinality({k \in DOMAIN shown : shown[k] = chat_threads[i]}) = 1
        /\ \A k \in DOMAIN shown : \E i \in DOMAIN chat_threads : shown[k] = chat_threads[i]
        /\ \A k, l \in DOMAIN shown :
              k < l => shown[k].created_at > shown[l].created_at
        /\ \A i, j \in DOMAIN chat_threads :
              i < j => \E k, l \in DOMAIN shown :
                          /\ k < l
                          /\ shown[k] = chat_threads[j]
                          /\ shown[l] = chat_threads[i]

\* C16 witness: after creates, a delete and a title update the sidebar shows
\* the newer of the two remaining threads first.
C16_Witness ==
    /\ ThreadIds(chat_threads) = {1, 3}
    /\ Len(sidebar_threads(chat_threads)) = 2
    /\ sidebar_threads(chat_threads)[1].id = 3
    /\ sidebar_threads(chat_threads)[2].id = 1
    /\ sidebar_threads(chat_threads)[2].title # NewChatTitle
    /\ sidebar_threads(chat_threads) # chat_threads

\* C18: the ids of the entries of the thread set are pairwise distinct.
C18_ThreadIdsDistinct ==
    \A i, j \in DOMAIN chat_threads :
        chat_threads[i].id = chat_threads[j].id => i = j

\* C18 witness: a select and its rerun, which adds the active thread again,
\* have run on a thread set of three entries.
C18_Witness ==
    /\ event.op = "select"
    /\ event.id # event.was
    /\ Len(chat_threads) = 3
    /\ Cardinality(ThreadIds(chat_threads)) = 3

\* C19: a delete leaves its id out of the thread set and not active, and an
\* id that was handed out and is no longer in the thread set (a deleted id)
\* is in the thread set and active after no later step.
C19_DeletedStaysDeleted ==
    [][/\ (event'.op = "delete")
          => /\ event'.id \notin ThreadIds(chat_threads')
             /\ thread_id' # event'.id
       /\ \A id \in ThreadIdSpace :
             (id < next_uuid /\ id \notin ThreadIds(chat_threads))
             => /\ id \notin ThreadIds(chat_threads')
                /\ thread_id' # id]_vars

\* C19 witness: two ids have been deleted and, a submit and its reruns later,
\* only the third is in the thread set.
C19_Witness ==
    /\ event.op = "stream_end"
    /\ next_uuid = 4
    /\ ThreadIds(chat_threads) = {3}
    /\ thread_id = 3
    /\ Len(chat_threads) = 1

\* C20: no step of a submit changes the active id, the membership or order of
\* the thread set, the id or created_at of an entry, or the title of an entry
\* other than the active thread's.
C20_SubmitTouchesActiveTitleOnly ==
    [][(event'.op \in {"submit", "chunk", "stream_end", "stream_raise"})
       => /\ thread_id' = thread_id
          /\ Len(chat_threads') = Len(chat_threads)
          /\ \A i \in DOMAIN chat_threads :
                /\ chat_threads'[i].id = chat_threads[i].id
                /\ chat_threads'[i].created_at = chat_threads[i].created_at
                /\ chat_threads[i].id # thread_id
                   => chat_threads'[i].title = chat_threads[i].title]_vars

\* C20 witness: a first submit failed in its stream; the active thread has
\* its new title and another thread still has the placeholder.
C20_Witness ==
    /\ event.op = "stream_raise"
    /\ Len(message_history) = 2
    /\ TitleOf(chat_threads, thread_id) = user_input
    /\ \E j \in DOMAIN chat_threads :
          /\ chat_threads[j].id # thread_id
          /\ chat_threads[j].title = NewChatTitle

====
